---- MODULE Spec2Model ----
(***************************************************************************)
(* Model of the "Deep Learning for Image Classification" practice:         *)
(*   - start-notebook.sh (download / unzip / docker run), and              *)
(*   - the cells of "Colorectal Histology.ipynb" (dataset indexer, image   *)
(*     loaders, model assembly, training with the CollectBatchStats        *)
(*     callback, evaluation loop).                                         *)
(* File names are sequences of one-character strings so that str.title()   *)
(* and sorted() are computed character by character.                       *)
(***************************************************************************)
EXTENDS Integers, Sequences, FiniteSets, TLC

VARIABLES
    \* ---- start-notebook.sh ----
    zip,            \* state of ${ZIP}:    "absent" | "valid" | "corrupt"
    folder,         \* state of ${FOLDER}: "absent" | "dir" | "file"
    sh_pc,          \* position in the script
    cur,            \* record of the run in progress
    runs,           \* records of the completed runs, oldest first
    \* ---- the notebook ----
    entries,        \* what data_dir.glob('*') yields, in the order it yields it
    cfg,            \* what the student chose: batch size, epochs, whether the freeze line is uncommented
    pc,             \* the cell to execute next
    CLASS_NAMES,    \* the array of cell 2
    train_data_gen, \* the training loader
    val_data_gen,   \* the validation loader (the variable is re-assigned before the evaluation loop)
    first_val_gen,  \* the validation loader object created before training (the one model.fit holds)
    model,          \* the Keras model: trainable flag, parameters, metric accumulators
    stats,          \* batch_stats_callback and the position of model.fit
    ev              \* class_names, batch_count and the figures of the evaluation loop

sh_vars == <<zip, folder, sh_pc, cur, runs>>
nb_vars == <<entries, cfg, pc, CLASS_NAMES, train_data_gen, val_data_gen,
             first_val_gen, model, stats, ev>>
vars == <<zip, folder, sh_pc, cur, runs, entries, cfg, pc, CLASS_NAMES,
          train_data_gen, val_data_gen, first_val_gen, model, stats, ev>>

(***************************************************************************)
(* Bounds of the model.                                                    *)
(***************************************************************************)
MaxRuns == 3
MinFiles == 5
MaxFiles == 10
MaxBatchSize == 2
MaxSplitFiles == 10
MaxSplitBatch == 4
MaxShift == 1

(***************************************************************************)
(* Program constants.                                                      *)
(***************************************************************************)
EPOCHS == 3
BATCH_LIMIT == 2
VALIDATION_SPLIT_PCT == 20

(***************************************************************************)
(* Characters and strings.                                                 *)
(***************************************************************************)
LowerChars == <<"a","b","c","d","e","f","g","h","i","j","k","l","m",
                "n","o","p","q","r","s","t","u","v","w","x","y","z">>
UpperChars == <<"A","B","C","D","E","F","G","H","I","J","K","L","M",
                "N","O","P","Q","R","S","T","U","V","W","X","Y","Z">>
\* the characters used, in code-point order
CharOrder == <<"(", ")", ".", "0","1","2","3","4","5","6","7","8","9">>
             \o UpperChars \o <<"_">> \o LowerChars

IndexIn(c, s) == CHOOSE i \in 1..Len(s) : s[i] = c
IsLower(c) == \E i \in 1..Len(LowerChars) : LowerChars[i] = c
IsUpper(c) == \E i \in 1..Len(UpperChars) : UpperChars[i] = c
IsCased(c) == IsLower(c) \/ IsUpper(c)
ToUpper(c) == IF IsLower(c) THEN UpperChars[IndexIn(c, LowerChars)] ELSE c
ToLower(c) == IF IsUpper(c) THEN LowerChars[IndexIn(c, UpperChars)] ELSE c
CharRank(c) == IndexIn(c, CharOrder)

\* str.title(): a cased character is upper-cased when the character before it
\* is not cased (or it is the first), lower-cased otherwise.
Title(s) ==
    [i \in 1..Len(s) |->
        IF ~IsCased(s[i]) THEN s[i]
        ELSE IF i > 1 /\ IsCased(s[i-1]) THEN ToLower(s[i]) ELSE ToUpper(s[i])]

\* s < t in Python's string order
RECURSIVE StrLess(_, _)
StrLess(s, t) ==
    IF t = <<>> THEN FALSE
    ELSE IF s = <<>> THEN TRUE
    ELSE IF s[1] # t[1] THEN CharRank(s[1]) < CharRank(t[1])
    ELSE StrLess(Tail(s), Tail(t))

\* sorted(S) for a set of strings
RECURSIVE SortedNames(_)
SortedNames(S) ==
    IF S = {} THEN <<>>
    ELSE LET m == CHOOSE x \in S : \A y \in S \ {x} : StrLess(x, y)
         IN <<m>> \o SortedNames(S \ {m})

\* t occurs in s as a contiguous substring
Contains(s, t) ==
    \E i \in 0..(Len(s) - Len(t)) : \A j \in 1..Len(t) : s[i + j] = t[j]

Range(s) == {s[i] : i \in 1..Len(s)}
IsPrefix(s, t) == Len(s) <= Len(t) /\ \A i \in 1..Len(s) : s[i] = t[i]

(***************************************************************************)
(* start-notebook.sh                                                       *)
(***************************************************************************)
NoRun == [zip_before |-> "none", folder_before |-> "none",
          download |-> FALSE, unzip |-> FALSE,
          zip_after |-> "none", folder_after |-> "none"]

\* wget ... -O ${ZIP}: the transfer completes, or it fails and leaves an empty
\* or truncated output file, or wget cannot run at all and leaves nothing.
WgetOutcomes == {"valid", "corrupt", "absent"}

\* unzip ${ZIP}: creates the dataset directory from a readable archive when
\* nothing is in the way; otherwise it reports an error and changes nothing.
Unzip(z, f) == IF z = "valid" /\ f = "absent" THEN "dir" ELSE f

ScriptStart ==
    /\ sh_pc = "idle"
    /\ Len(runs) < MaxRuns
    /\ sh_pc' = "test_zip"
    /\ cur' = [NoRun EXCEPT !.zip_before = zip, !.folder_before = folder]
    /\ UNCHANGED <<zip, folder, runs>>
    /\ UNCHANGED nb_vars

\* if [[ ! -f ${ZIP} ]] ; then wget ... -O ${ZIP} ; fi
TestZip ==
    /\ sh_pc = "test_zip"
    /\ IF zip = "absent"
       THEN /\ zip' \in WgetOutcomes
            /\ cur' = [cur EXCEPT !.download = TRUE]
       ELSE UNCHANGED <<zip, cur>>
    /\ sh_pc' = "test_folder"
    /\ UNCHANGED <<folder, runs>>
    /\ UNCHANGED nb_vars

\* the same step without the test: unzip every time
TestFolder_Always ==
    /\ sh_pc = "test_folder"
    /\ folder' = Unzip(zip, folder)
    /\ cur' = [cur EXCEPT !.unzip = TRUE]
    /\ sh_pc' = "docker"
    /\ UNCHANGED <<zip, runs>>
    /\ UNCHANGED nb_vars

\* if [ ! -d "${FOLDER}" ]; then unzip ${ZIP} ; fi
TestFolder ==
    /\ sh_pc = "test_folder"
    /\ IF folder # "dir"
       THEN /\ folder' = Unzip(zip, folder)
            /\ cur' = [cur EXCEPT !.unzip = TRUE]
       ELSE UNCHANGED <<folder, cur>>
    /\ sh_pc' = "docker"
    /\ UNCHANGED <<zip, runs>>
    /\ UNCHANGED nb_vars

\* docker run ... ; the script ends when the container does
DockerRun ==
    /\ sh_pc = "docker"
    /\ runs' = Append(runs, [cur EXCEPT !.zip_after = zip, !.folder_after = folder])
    /\ cur' = NoRun
    /\ sh_pc' = "idle"
    /\ UNCHANGED <<zip, folder>>
    /\ UNCHANGED nb_vars

(***************************************************************************)
(* The dataset directory and the dataset indexer (cell 2).                 *)
(***************************************************************************)
TUMOR == <<"0","1","_","T","U","M","O","R">>
ADIPOSE == <<"0","7","_","A","D","I","P","O","S","E">>
LICENSE_TXT == <<"L","I","C","E","N","S","E",".","t","x","t">>
NOTES_MD == <<"n","o","t","e","s",".","m","d">>

DirNames == {TUMOR, ADIPOSE}
FileNames == {LICENSE_TXT, NOTES_MD}

\* every order in which glob('*') can list a set S of names
RECURSIVE Orders(_)
Orders(S) ==
    IF S = {} THEN {<<>>}
    ELSE UNION {{<<x>> \o o : o \in Orders(S \ {x})} : x \in S}

Entry(name, n) == [name |-> name, isdir |-> name \in DirNames, nfiles |-> n]

\* CLASS_NAMES = np.array([item.name for item in data_dir.glob('*')
\*                         if item.name != "LICENSE.txt"])
RECURSIVE ClassNamesOf(_)
ClassNamesOf(es) ==
    IF es = <<>> THEN <<>>
    ELSE IF es[1].name # LICENSE_TXT
         THEN <<es[1].name>> \o ClassNamesOf(Tail(es))
         ELSE ClassNamesOf(Tail(es))

\* the names of the immediate subdirectories of data_dir
Subdirectories(es) == {es[i].name : i \in {j \in 1..Len(es) : es[j].isdir}}

(***************************************************************************)
(* ImageDataGenerator(validation_split=0.2).flow_from_directory(...)       *)
(***************************************************************************)
\* number of image files under directory/<name>: a plain file or a missing
\* name has none
NumFiles(es, name) ==
    IF \E i \in 1..Len(es) : es[i].name = name /\ es[i].isdir
    THEN (CHOOSE e \in Range(es) : e.name = name).nfiles
    ELSE 0

\* int(validation_split * n)
SplitPoint(n) == (VALIDATION_SPLIT_PCT * n) \div 100

\* the same slice taken one file too late
SubsetRange_OffByOne(n, subset) ==
    IF subset = "validation" THEN <<0, SplitPoint(n)>> ELSE <<SplitPoint(n) + 1, n>>

\* the slice [start, stop) of a class's sorted file list that a subset takes:
\* validation takes (0, validation_split), training (validation_split, 1)
SubsetRange(n, subset) ==
    IF subset = "validation" THEN <<0, SplitPoint(n)>> ELSE <<SplitPoint(n), n>>

\* the files of one class that belong to the subset, in sorted order
ClassFiles(es, name, subset) ==
    LET r == SubsetRange(NumFiles(es, name), subset)
    IN [j \in 1..(r[2] - r[1]) |-> [cls |-> name, k |-> r[1] + j]]

\* filenames of all classes, class by class in the order of `classes`
RECURSIVE GenFiles(_, _, _, _)
GenFiles(es, classes, i, subset) ==
    IF i > Len(classes) THEN <<>>
    ELSE ClassFiles(es, classes[i], subset) \o GenFiles(es, classes, i + 1, subset)

\* the class index (0-based) of each file, parallel to GenFiles
RECURSIVE GenLabels(_, _, _, _)
GenLabels(es, classes, i, subset) ==
    IF i > Len(classes) THEN <<>>
    ELSE [j \in 1..Len(ClassFiles(es, classes[i], subset)) |-> i - 1]
         \o GenLabels(es, classes, i + 1, subset)

NoGen == [classes |-> <<>>, filenames |-> <<>>, labels |-> <<>>, samples |-> 0,
          batch_size |-> 0, shuffle |-> FALSE, batch_index |-> 0,
          total_batches_seen |-> 0, index_array |-> <<>>]

FlowFromDirectory(es, classes, batch_size, shuffle, subset) ==
    [classes |-> classes,
     filenames |-> GenFiles(es, classes, 1, subset),
     labels |-> GenLabels(es, classes, 1, subset),
     samples |-> Len(GenFiles(es, classes, 1, subset)),
     batch_size |-> batch_size,
     shuffle |-> shuffle,
     batch_index |-> 0,
     total_batches_seen |-> 0,
     index_array |-> <<>>]

\* len(gen): (n + batch_size - 1) // batch_size
GenLen(gen) == (gen.samples + gen.batch_size - 1) \div gen.batch_size

\* gen.class_indices = dict(zip(classes, range(len(classes))))
ClassIndices(gen) == {<<gen.classes[i], i - 1>> : i \in 1..Len(gen.classes)}

\* gen.num_classes
NumClasses(gen) == Len(gen.classes)

(***************************************************************************)
(* The batch iterator of a loader (Iterator._flow_index / __next__).       *)
(* index_array holds positions 1..n of gen.filenames.                      *)
(***************************************************************************)
Min(a, b) == IF a < b THEN a ELSE b

Identity(n) == [i \in 1..n |-> i]

\* the orders a shuffled pass may take: 1..n and n..1, each rotated by up
\* to MaxShift places
Shuffles(n) ==
    {[i \in 1..n |-> ((i + k - 1) % n) + 1] : k \in 0..Min(MaxShift, n - 1)}
    \cup {[i \in 1..n |-> n - ((i + k - 1) % n)] : k \in 0..Min(MaxShift, n - 1)}

\* the index arrays _set_index_array() can produce at the start of a pass
PassOrders(gen) ==
    IF gen.shuffle /\ gen.batch_index = 0 /\ gen.samples > 0
    THEN Shuffles(gen.samples)
    ELSE {Identity(gen.samples)}

\* one next(gen): the pass order is (re)drawn when batch_index is 0, the batch
\* is index_array[current_index : current_index + batch_size], and the
\* iterator wraps to the start of a new pass after the last batch.
NextBatch(gen, order) ==
    LET arr == IF gen.batch_index = 0 THEN order ELSE gen.index_array
        n == gen.samples
        current_index == IF n = 0 THEN 0 ELSE (gen.batch_index * gen.batch_size) % n
        bi == IF n > current_index + gen.batch_size THEN gen.batch_index + 1 ELSE 0
    IN [gen |-> [gen EXCEPT !.index_array = arr,
                            !.batch_index = bi,
                            !.total_batches_seen = @ + 1],
        batch |-> SubSeq(arr, current_index + 1, Min(current_index + gen.batch_size, n))]

\* the validation pass model.fit runs at the end of an epoch:
\* gen[0] .. gen[len(gen) - 1]
ValidationPass(gen) ==
    [gen EXCEPT !.total_batches_seen = @ + GenLen(gen),
                !.index_array = Identity(gen.samples)]

\* to_categorical: the one-hot label of class index c among nc classes
OneHot(c, nc) == [i \in 1..nc |-> IF i = c + 1 THEN 1 ELSE 0]
OneHots(nc) == {OneHot(c, nc) : c \in 0..(nc - 1)}

\* np.argmax(v): the first position (0-based) of the largest entry
ArgMax(v) ==
    (CHOOSE i \in 1..Len(v) :
        /\ \A j \in 1..Len(v) : v[j] <= v[i]
        /\ \A j \in 1..(i - 1) : v[j] < v[i]) - 1

(***************************************************************************)
(* Cells 2 and 4: class names and loaders.                                 *)
(***************************************************************************)
NoModel == [extractor_trainable |-> FALSE, extractor_params |-> 0,
            head_params |-> 0, num_classes |-> 0,
            loss_total |-> 0, acc_total |-> 0, metric_count |-> 0]
NoStats == [batch_losses |-> <<>>, batch_acc |-> <<>>, steps_per_epoch |-> 0,
            epoch |-> 0, step |-> 0, seen |-> 0, epoch_samples |-> <<>>,
            extractor_before |-> 0, head_before |-> 0]
NoEval == [class_names |-> <<>>, batch_count |-> 0, rendered |-> <<>>]

IndexDataset ==
    /\ pc = "index"
    /\ CLASS_NAMES' = ClassNamesOf(entries)
    /\ pc' = "loaders"
    /\ UNCHANGED <<entries, cfg, train_data_gen, val_data_gen, first_val_gen,
                   model, stats, ev>>
    /\ UNCHANGED sh_vars

ConfigureLoaders ==
    /\ pc = "loaders"
    /\ train_data_gen' = FlowFromDirectory(entries, CLASS_NAMES, cfg.batch_size,
                                           TRUE, "training")
    /\ val_data_gen' = FlowFromDirectory(entries, CLASS_NAMES, cfg.batch_size,
                                         FALSE, "validation")
    /\ first_val_gen' = val_data_gen'
    /\ pc' = "extractor"
    /\ UNCHANGED <<entries, cfg, CLASS_NAMES, model, stats, ev>>
    /\ UNCHANGED sh_vars

(***************************************************************************)
(* Cells 6-9: feature extractor, optional freeze, model, compile.          *)
(***************************************************************************)
\* hub.KerasLayer(url, input_shape=(224,224,3)): no `trainable` argument is
\* passed, and hub.KerasLayer's `trainable` parameter defaults to False.
HubKerasLayer == [NoModel EXCEPT !.extractor_trainable = FALSE]

CreateFeatureExtractor ==
    /\ pc = "extractor"
    /\ model' = HubKerasLayer
    /\ pc' = IF cfg.freeze THEN "freeze" ELSE "build"
    /\ UNCHANGED <<entries, cfg, CLASS_NAMES, train_data_gen, val_data_gen,
                   first_val_gen, stats, ev>>
    /\ UNCHANGED sh_vars

\* feature_extractor_layer.trainable = False   (when the line is uncommented)
FreezeExtractor ==
    /\ pc = "freeze"
    /\ model' = [model EXCEPT !.extractor_trainable = FALSE]
    /\ pc' = "build"
    /\ UNCHANGED <<entries, cfg, CLASS_NAMES, train_data_gen, val_data_gen,
                   first_val_gen, stats, ev>>
    /\ UNCHANGED sh_vars

\* Sequential([feature_extractor_layer, Dense(train_data_gen.num_classes, softmax)])
BuildModel ==
    /\ pc = "build"
    /\ model' = [model EXCEPT !.num_classes = NumClasses(train_data_gen)]
    /\ pc' = "compile"
    /\ UNCHANGED <<entries, cfg, CLASS_NAMES, train_data_gen, val_data_gen,
                   first_val_gen, stats, ev>>
    /\ UNCHANGED sh_vars

\* model.compile(optimizer=Adam(), loss='categorical_crossentropy', metrics=['acc'])
CompileModel ==
    /\ pc = "compile"
    /\ model' = [model EXCEPT !.loss_total = 0, !.acc_total = 0, !.metric_count = 0]
    /\ pc' = "fit"
    /\ UNCHANGED <<entries, cfg, CLASS_NAMES, train_data_gen, val_data_gen,
                   first_val_gen, stats, ev>>
    /\ UNCHANGED sh_vars

(***************************************************************************)
(* Cell 10: CollectBatchStats and model.fit.                               *)
(* The loss and the accuracy of the t-th training batch are the distinct   *)
(* numbers BatchLoss(t) and BatchAcc(t); the model's metrics report the    *)
(* mean of the values accumulated since the last reset, as Keras does.     *)
(***************************************************************************)
BatchLoss(t) == 2 * t
BatchAcc(t) == 2 * t + 1

\* the metrics accumulate the batch's values
UpdateMetrics(m, t) ==
    [m EXCEPT !.loss_total = @ + BatchLoss(t),
              !.acc_total = @ + BatchAcc(t),
              !.metric_count = @ + 1]

\* the logs handed to the callbacks: the metrics' current results
Logs(m) == [loss |-> m.loss_total \div m.metric_count,
            acc |-> m.acc_total \div m.metric_count]

\* model.reset_metrics()
ResetMetrics(m) == [m EXCEPT !.loss_total = 0, !.acc_total = 0, !.metric_count = 0]

\* the optimizer step: the new Dense head is always trained, the feature
\* extractor only when its layer is trainable
ApplyGradients(m) ==
    [m EXCEPT !.head_params = @ + 1,
              !.extractor_params = IF m.extractor_trainable THEN @ + 1 ELSE @]

\* the callback without the reset_metrics() call
on_train_batch_end_NoReset(st, m, logs) ==
    [stats |-> [st EXCEPT !.batch_losses = Append(@, logs.loss),
                          !.batch_acc = Append(@, logs.acc)],
     model |-> m]

\* CollectBatchStats.on_train_batch_end(batch, logs)
on_train_batch_end(st, m, logs) ==
    [stats |-> [st EXCEPT !.batch_losses = Append(@, logs.loss),
                          !.batch_acc = Append(@, logs.acc)],
     model |-> ResetMetrics(m)]

\* the step count rounded down instead of up
StepsPerEpoch_Floor(gen) == gen.samples \div gen.batch_size

\* steps_per_epoch = np.ceil(train_data_gen.samples / train_data_gen.batch_size)
StepsPerEpoch(gen) == (gen.samples + gen.batch_size - 1) \div gen.batch_size

\* CollectBatchStats() is constructed and model.fit starts
FitBegin ==
    /\ pc = "fit"
    /\ stats' = [NoStats EXCEPT !.steps_per_epoch = StepsPerEpoch(train_data_gen),
                                !.extractor_before = model.extractor_params,
                                !.head_before = model.head_params]
    /\ pc' = IF cfg.epochs = 0 THEN "recreate" ELSE "train"
    /\ UNCHANGED <<entries, cfg, CLASS_NAMES, train_data_gen, val_data_gen,
                   first_val_gen, model, ev>>
    /\ UNCHANGED sh_vars

\* one training step of model.fit and the callback that follows it
TrainBatch ==
    /\ pc = "train"
    /\ stats.step < stats.steps_per_epoch
    /\ \E order \in PassOrders(train_data_gen) :
          LET nb == NextBatch(train_data_gen, order)
              t == stats.seen + 1
              m == ApplyGradients(UpdateMetrics(model, t))
              st == [stats EXCEPT !.step = @ + 1,
                                  !.seen = t,
                                  !.epoch_samples = @ \o nb.batch]
              r == on_train_batch_end(st, m, Logs(m))
          IN /\ train_data_gen' = nb.gen
             /\ model' = r.model
             /\ stats' = r.stats
    /\ UNCHANGED <<entries, cfg, pc, CLASS_NAMES, val_data_gen, first_val_gen, ev>>
    /\ UNCHANGED sh_vars

\* the end of an epoch: the validation pass; then the next epoch starts (with
\* the metrics reset) or model.fit returns
EpochEnd ==
    /\ pc = "train"
    /\ stats.step = stats.steps_per_epoch
    /\ val_data_gen' = ValidationPass(val_data_gen)
    /\ model' = ResetMetrics(model)
    /\ IF stats.epoch + 1 = cfg.epochs
       THEN /\ stats' = [stats EXCEPT !.epoch = @ + 1]
            /\ pc' = "recreate"
       ELSE /\ stats' = [stats EXCEPT !.epoch = @ + 1, !.step = 0,
                                      !.epoch_samples = <<>>]
            /\ pc' = "train"
    /\ UNCHANGED <<entries, cfg, CLASS_NAMES, train_data_gen, first_val_gen, ev>>
    /\ UNCHANGED sh_vars

(***************************************************************************)
(* Cell 12: the evaluation loop.                                           *)
(***************************************************************************)
\* the array built with the items sorted by name instead of by index
ClassNamesArray_ByName(gen) ==
    LET sorted == SortedNames(Range(gen.classes))
    IN [i \in 1..Len(sorted) |-> Title(sorted[i])]

\* class_names = sorted(val_data_gen.class_indices.items(), key=lambda pair: pair[1])
\* class_names = np.array([key.title() for key, value in class_names])
ClassNamesArray(gen) ==
    [i \in 1..Cardinality(ClassIndices(gen)) |->
        Title((CHOOSE p \in ClassIndices(gen) : p[2] = i - 1)[1])]

\* the figure of one batch: per image, what the loop computes and what
\* plt.title(predicted_label_batch[n].title(), color=color) shows
Grid(gen, batch, predicted_batch, class_names) ==
    [n \in 1..Len(batch) |->
        LET predicted_id == ArgMax(predicted_batch[n])
            label_id == ArgMax(OneHot(gen.labels[batch[n]], Len(gen.classes)))
            predicted_label == class_names[predicted_id + 1]
        IN [file |-> gen.filenames[batch[n]],
            predicted_id |-> predicted_id,
            label_id |-> label_id,
            color |-> IF predicted_id = label_id THEN "green" ELSE "red",
            title |-> IF predicted_id = label_id
                      THEN Title(predicted_label)
                      ELSE Title(predicted_label) \o <<"(">>
                           \o class_names[label_id + 1] \o <<")">>,
            shown |-> Title(predicted_label)]]

\* the loader re-created with subset='training'
RecreateValGen_Training ==
    /\ pc = "recreate"
    /\ val_data_gen' = FlowFromDirectory(entries, CLASS_NAMES, cfg.batch_size,
                                         FALSE, "training")
    /\ ev' = [NoEval EXCEPT !.class_names = ClassNamesArray(val_data_gen')]
    /\ pc' = "eval"
    /\ UNCHANGED <<entries, cfg, CLASS_NAMES, train_data_gen, first_val_gen,
                   model, stats>>
    /\ UNCHANGED sh_vars

\* val_data_gen is created again, class_names is built, batch_count = 0
RecreateValGen ==
    /\ pc = "recreate"
    /\ val_data_gen' = FlowFromDirectory(entries, CLASS_NAMES, cfg.batch_size,
                                         FALSE, "validation")
    /\ ev' = [NoEval EXCEPT !.class_names = ClassNamesArray(val_data_gen')]
    /\ pc' = "eval"
    /\ UNCHANGED <<entries, cfg, CLASS_NAMES, train_data_gen, first_val_gen,
                   model, stats>>
    /\ UNCHANGED sh_vars

\* the loop body with the commented-out test: if batch_count == len(val_data_gen)
EvalBatch_AllBatches ==
    /\ pc = "eval"
    /\ LET nb == NextBatch(val_data_gen, Identity(val_data_gen.samples))
       IN \E predicted_batch \in [1..Len(nb.batch) -> OneHots(model.num_classes)] :
            /\ val_data_gen' = nb.gen
            /\ ev' = [ev EXCEPT
                        !.batch_count = @ + 1,
                        !.rendered = Append(@, Grid(val_data_gen, nb.batch,
                                                    predicted_batch, ev.class_names))]
            /\ pc' = IF ev.batch_count + 1 = GenLen(val_data_gen) THEN "done" ELSE "eval"
    /\ UNCHANGED <<entries, cfg, CLASS_NAMES, train_data_gen, first_val_gen,
                   model, stats>>
    /\ UNCHANGED sh_vars

\* one iteration of `for image_batch, label_batch in val_data_gen:` with
\* `if batch_count == 2: break` at its end
EvalBatch ==
    /\ pc = "eval"
    /\ LET nb == NextBatch(val_data_gen, Identity(val_data_gen.samples))
       IN \E predicted_batch \in [1..Len(nb.batch) -> OneHots(model.num_classes)] :
            /\ val_data_gen' = nb.gen
            /\ ev' = [ev EXCEPT
                        !.batch_count = @ + 1,
                        !.rendered = Append(@, Grid(val_data_gen, nb.batch,
                                                    predicted_batch, ev.class_names))]
            /\ pc' = IF ev.batch_count + 1 = BATCH_LIMIT THEN "done" ELSE "eval"
    /\ UNCHANGED <<entries, cfg, CLASS_NAMES, train_data_gen, first_val_gen,
                   model, stats>>
    /\ UNCHANGED sh_vars

(***************************************************************************)
(* Initial states and specifications.                                      *)
(***************************************************************************)
ScriptIdle ==
    /\ zip = "valid" /\ folder = "dir" /\ sh_pc = "off"
    /\ cur = NoRun /\ runs = <<>>

NotebookIdle ==
    /\ entries = <<>>
    /\ cfg = [batch_size |-> 0, epochs |-> 0, freeze |-> FALSE]
    /\ pc = "off"
    /\ CLASS_NAMES = <<>>
    /\ train_data_gen = NoGen /\ val_data_gen = NoGen /\ first_val_gen = NoGen
    /\ model = NoModel /\ stats = NoStats /\ ev = NoEval

NotebookStart ==
    /\ pc = "index"
    /\ CLASS_NAMES = <<>>
    /\ train_data_gen = NoGen /\ val_data_gen = NoGen /\ first_val_gen = NoGen
    /\ model = NoModel /\ stats = NoStats /\ ev = NoEval

\* every listing order of every directory content with at least one class
\* folder, MinFiles images per folder
Listings ==
    UNION {Orders(D \cup F) : D \in (SUBSET DirNames) \ {{}}, F \in SUBSET FileNames}

InitListing ==
    /\ \E names \in Listings :
          entries = [i \in 1..Len(names) |->
                       Entry(names[i], IF names[i] \in DirNames THEN MinFiles ELSE 0)]
    /\ cfg \in [batch_size : {MaxBatchSize}, epochs : {EPOCHS}, freeze : {FALSE}]

\* the dataset's layout with folders of different sizes
InitSizes ==
    /\ \E a \in MinFiles..MaxFiles, b \in MinFiles..(MinFiles + 1) :
          entries = <<Entry(TUMOR, a), Entry(LICENSE_TXT, 0), Entry(ADIPOSE, b)>>
    /\ cfg \in [batch_size : 1..MaxBatchSize, epochs : {0, EPOCHS}, freeze : BOOLEAN]

Init ==
    /\ ScriptIdle
    /\ NotebookStart
    /\ (InitListing \/ InitSizes)

Next ==
    \/ IndexDataset
    \/ ConfigureLoaders
    \/ CreateFeatureExtractor
    \/ FreezeExtractor
    \/ BuildModel
    \/ CompileModel
    \/ FitBegin
    \/ TrainBatch
    \/ EpochEnd
    \/ RecreateValGen
    \/ EvalBatch

Spec == Init /\ [][Next]_vars

\* the loaders alone, on two class folders of 0..MaxSplitFiles images
InitSplit ==
    /\ ScriptIdle
    /\ NotebookStart
    /\ \E a, b \in 0..MaxSplitFiles :
          entries = <<Entry(TUMOR, a), Entry(ADIPOSE, b)>>
    /\ cfg \in [batch_size : 1..MaxSplitBatch, epochs : {EPOCHS}, freeze : {FALSE}]

NextSplit ==
    \/ IndexDataset
    \/ ConfigureLoaders

SpecSplit == InitSplit /\ [][NextSplit]_vars

\* the start script, run up to MaxRuns times from any state of the two paths
InitScript ==
    /\ zip \in {"absent", "valid", "corrupt"}
    /\ folder \in {"absent", "dir", "file"}
    /\ sh_pc = "idle"
    /\ cur = NoRun
    /\ runs = <<>>
    /\ NotebookIdle

NextScript ==
    \/ ScriptStart
    \/ TestZip
    \/ TestFolder
    \/ DockerRun

SpecScript == InitScript /\ [][NextScript]_vars

(***************************************************************************)
(* Properties.                                                             *)
(***************************************************************************)
AfterFit == pc \in {"recreate", "eval", "done"}
AfterRecreate == pc \in {"eval", "done"}
AfterLoaders == pc \notin {"off", "index", "loaders"}
Occurrences(seq, x) == Cardinality({i \in 1..Len(seq) : seq[i] = x})

\* C1: every image of every rendered validation batch is annotated with the
\* predicted class name, green exactly when the predicted index equals the
\* true index and red otherwise, and the annotation shown also contains the
\* true class name whenever the prediction is wrong.
C1_AnnotationShown ==
    \A g \in 1..Len(ev.rendered) : \A n \in 1..Len(ev.rendered[g]) :
        LET a == ev.rendered[g][n]
        IN /\ Contains(a.shown, ev.class_names[a.predicted_id + 1])
           /\ a.color = (IF a.predicted_id = a.label_id THEN "green" ELSE "red")
           /\ a.predicted_id # a.label_id
                => Contains(a.shown, ev.class_names[a.label_id + 1])

\* C2: the evaluation loop with the limit of 2 renders exactly 2 grids and
\* stops, whatever the number of validation batches: while it runs it is under
\* the limit with one grid per batch fetched, and every stopped state has
\* fetched, predicted and rendered exactly 2 batches.
C2_TwoGridsThenStop ==
    /\ pc = "eval" => /\ ev.batch_count < 2
                      /\ Len(ev.rendered) = ev.batch_count
                      /\ val_data_gen.total_batches_seen = ev.batch_count
    /\ pc = "done" => /\ ev.batch_count = 2
                      /\ Len(ev.rendered) = 2
                      /\ val_data_gen.total_batches_seen = 2
                      /\ \A g \in 1..2 : Len(ev.rendered[g]) >= 1

C2_Witness ==
    /\ pc = "done"
    /\ GenLen(val_data_gen) = 3
    /\ Len(ev.rendered) = 2

\* what the histories hold after each step of the run
C3_Recorded ==
    /\ Len(stats.batch_losses) = stats.seen
    /\ Len(stats.batch_acc) = stats.seen
    /\ \A i \in 1..Len(stats.batch_losses) : stats.batch_losses[i] = BatchLoss(i)
    /\ \A i \in 1..Len(stats.batch_acc) : stats.batch_acc[i] = BatchAcc(i)
    /\ pc = "train" => model.metric_count = 0
    /\ AfterFit => /\ Len(stats.batch_losses) = cfg.epochs * stats.steps_per_epoch
                   /\ Len(stats.batch_acc) = cfg.epochs * stats.steps_per_epoch

\* a step keeps what the histories hold and adds at most one entry to each
C3_AppendOnly ==
    /\ IsPrefix(stats.batch_losses, stats.batch_losses')
    /\ IsPrefix(stats.batch_acc, stats.batch_acc')
    /\ Len(stats.batch_losses') <= Len(stats.batch_losses) + 1
    /\ Len(stats.batch_acc') <= Len(stats.batch_acc) + 1

\* C3: after every training batch the callback has appended exactly one loss
\* and one accuracy, each the value of that batch alone and not a running
\* average, and the metrics are reset; the histories are never shortened or
\* rewritten, and after the run both have length epochs x steps_per_epoch.
C3_History == [](C3_Recorded) /\ [][C3_AppendOnly]_vars

C3_Witness ==
    /\ pc = "recreate"
    /\ stats.steps_per_epoch > 1
    /\ Len(stats.batch_losses) = EPOCHS * stats.steps_per_epoch

C5_Split ==
    AfterLoaders =>
        LET both == train_data_gen.filenames \o val_data_gen.filenames
            b == cfg.batch_size
        IN /\ \A i \in 1..Len(entries) : \A k \in 1..entries[i].nfiles :
                  Occurrences(both, [cls |-> entries[i].name, k |-> k]) = 1
           /\ \A i \in 1..Len(entries) :
                  LET v == Cardinality({j \in 1..Len(val_data_gen.filenames) :
                               val_data_gen.filenames[j].cls = entries[i].name})
                  IN /\ 100 * v <= VALIDATION_SPLIT_PCT * entries[i].nfiles
                     /\ VALIDATION_SPLIT_PCT * entries[i].nfiles < 100 * (v + 1)
           /\ (entries[1].nfiles = 10 /\ entries[2].nfiles = 10 /\ b = 4)
                  => /\ train_data_gen.samples = 16
                     /\ val_data_gen.samples = 4
                     /\ StepsPerEpoch(train_data_gen) = 4
                     /\ GenLen(val_data_gen) = 1
           /\ StepsPerEpoch(train_data_gen) * b >= train_data_gen.samples
           /\ StepsPerEpoch(train_data_gen) * b < train_data_gen.samples + b
           /\ GenLen(val_data_gen) * b >= val_data_gen.samples
           /\ GenLen(val_data_gen) * b < val_data_gen.samples + b

C5_Witness ==
    /\ AfterLoaders
    /\ entries[1].nfiles = 10 /\ entries[2].nfiles = 10 /\ cfg.batch_size = 4
    /\ train_data_gen.samples = 16
    /\ val_data_gen.samples = 4

\* C6: class index i denotes the same class in the training loader's labels,
\* in the validation loader's labels and in the evaluation loop's class_names:
\* the folder of every file is the class its label index names.
C6_StableOrder ==
    /\ AfterLoaders =>
          \A gen \in {train_data_gen, val_data_gen, first_val_gen} :
              /\ gen.classes = CLASS_NAMES
              /\ \A j \in 1..Len(gen.filenames) :
                    CLASS_NAMES[gen.labels[j] + 1] = gen.filenames[j].cls
    /\ AfterRecreate =>
          /\ Len(ev.class_names) = Len(CLASS_NAMES)
          /\ \A i \in 1..Len(CLASS_NAMES) : ev.class_names[i] = Title(CLASS_NAMES[i])
          /\ \A g \in 1..Len(ev.rendered) : \A n \in 1..Len(ev.rendered[g]) :
                LET a == ev.rendered[g][n]
                IN ev.class_names[a.label_id + 1] = Title(a.file.cls)

C6_Witness ==
    /\ pc = "done"
    /\ Len(CLASS_NAMES) >= 2
    /\ CLASS_NAMES # SortedNames(Range(CLASS_NAMES))
    /\ Len(ev.rendered) = 2

\* C7 as stated: from any starting state of the archive and the folder, every
\* run after the first downloads nothing, extracts nothing and leaves both
\* paths as the first run left them.
C7_SecondRunDoesNothing ==
    \A r \in 2..Len(runs) :
        /\ ~runs[r].download
        /\ ~runs[r].unzip
        /\ runs[r].zip_after = runs[1].zip_after
        /\ runs[r].folder_after = runs[1].folder_after

\* C7 amended: a run downloads only if the archive file does not exist and
\* extracts only if the dataset folder does not exist, and after a run that
\* ended with both present every later run downloads nothing, extracts
\* nothing and leaves both as they were.
C7_IdempotentOnceComplete ==
    \A r \in 1..Len(runs) :
        /\ runs[r].download => runs[r].zip_before = "absent"
        /\ runs[r].unzip => runs[r].folder_before # "dir"
        /\ (r > 1 /\ runs[r - 1].zip_after # "absent" /\ runs[r - 1].folder_after = "dir")
              => /\ ~runs[r].download
                 /\ ~runs[r].unzip
                 /\ runs[r].zip_after = runs[r - 1].zip_after
                 /\ runs[r].folder_after = runs[r - 1].folder_after

C7_Witness ==
    /\ Len(runs) >= 2
    /\ runs[1].download /\ runs[1].unzip
    /\ runs[1].zip_after = "valid" /\ runs[1].folder_after = "dir"
    /\ ~runs[2].download /\ ~runs[2].unzip

\* C8: training for 0 epochs changes no parameter, training with the freeze
\* line enabled leaves the extractor's parameters as they were, and without
\* the freeze line the extractor is trainable.
C8_FrozenOnlyOnRequest ==
    /\ AfterFit =>
          /\ cfg.epochs = 0 => /\ model.extractor_params = stats.extractor_before
                               /\ model.head_params = stats.head_before
          /\ cfg.freeze => model.extractor_params = stats.extractor_before
    /\ (pc \notin {"off", "index", "loaders", "extractor"} /\ ~cfg.freeze)
          => model.extractor_trainable

\* C9: the class names are exactly the names of the immediate subdirectories
\* of the root: no LICENSE.txt and no other plain file among them.
C9_OnlySubdirectories ==
    pc \notin {"off", "index"} =>
        /\ Range(CLASS_NAMES) = Subdirectories(entries)
        /\ LICENSE_TXT \notin Range(CLASS_NAMES)

\* C10: every epoch is exactly one pass over the training partition: no sample
\* is consumed twice within an epoch, and when the epoch's steps are done
\* every training sample has been consumed and the loader is at the start of
\* its next pass.
C10_EpochIsOnePass ==
    (pc = "train" \/ (AfterFit /\ cfg.epochs > 0)) =>
        /\ \A i, j \in 1..Len(stats.epoch_samples) :
              i # j => stats.epoch_samples[i] # stats.epoch_samples[j]
        /\ stats.step = stats.steps_per_epoch =>
              /\ Range(stats.epoch_samples) = 1..train_data_gen.samples
              /\ Len(stats.epoch_samples) = Len(train_data_gen.filenames)
              /\ train_data_gen.batch_index = 0

C10_Witness ==
    /\ pc = "train"
    /\ stats.epoch = 2
    /\ stats.step = stats.steps_per_epoch
    /\ train_data_gen.samples % train_data_gen.batch_size # 0
    /\ Len(stats.epoch_samples) = train_data_gen.samples

====
